---- MODULE Spec2Model ----
(***************************************************************************)
(* Model of the PS/PDF tokenizer of token.go, for a Tokenizer built on a   *)
(* byte slice (NewTokenizer: src == nil, so read() and readCharString()    *)
(* never grow the buffer).                                                 *)
(*                                                                         *)
(* Bytes are their ASCII codes, a []byte is a sequence of codes, and the   *)
(* Go offset p (0-based) of a byte is index p+1 of the sequence.  A scan   *)
(* is a pure operator of (data, pos, previous) giving the token, the       *)
(* error, the new pos and whether the scan panicked (fault).               *)
(***************************************************************************)
EXTENDS Integers, Sequences, FiniteSets, TLC

\* ASCII codes of the bytes the scanner tests for.
B == [nul |-> 0, bs |-> 8, tab |-> 9, lf |-> 10, ff |-> 12, cr |-> 13,
      sp |-> 32, hash |-> 35, pct |-> 37, lpar |-> 40, rpar |-> 41,
      plus |-> 43, minus |-> 45, dot |-> 46, slash |-> 47, d0 |-> 48,
      d1 |-> 49, d2 |-> 50, d3 |-> 51, d6 |-> 54, d7 |-> 55, d8 |-> 56, d9 |-> 57,
      lt |-> 60, gt |-> 62, uA |-> 65, uD |-> 68, uE |-> 69, uF |-> 70,
      uI |-> 73, uR |-> 82, uZ |-> 90, lbrk |-> 91, bsl |-> 92, rbrk |-> 93,
      la |-> 97, lb |-> 98, le |-> 101, lf_ |-> 102, ln |-> 110, lr |-> 114,
      lt_ |-> 116, lx |-> 120, lz |-> 122, lbrc |-> 123, bar |-> 124, rbrc |-> 125]

----------------------------------------------------------------------------
\* Kinds and tokens

\* The Kind enumeration; KindZero is the unnamed zero value `_ Kind = iota`.
KindZero == "<invalid token>"
Kinds == {KindZero, "EOF", "Float", "Integer", "String", "StringHex", "Name",
          "StartArray", "EndArray", "StartDic", "EndDic", "Other",
          "StartProc", "EndProc", "CharString"}

\* The nil error.
Nil == "nil"

\* Token{}: the zero value of the Token struct.
ZeroToken == [Kind |-> KindZero, Value |-> <<>>]

\* Token{Kind: k}
KindToken(k) == [Kind |-> k, Value |-> <<>>]

\* Token{Kind: k, Value: v}
ValToken(k, v) == [Kind |-> k, Value |-> v]

\* The words "stream", "ID", "RD" and "-|" as byte sequences.
WStream == <<115, 116, 114, 101, 97, 109>>
WID == <<B.uI, B.uD>>
WRD == <<B.uR, B.uD>>
WMinusBar == <<B.minus, B.bar>>

startsBinary(t) == t.Kind = "Other" /\ (t.Value = WStream \/ t.Value = WID)

----------------------------------------------------------------------------
\* Classifier

isEOL(ch) == ch = B.lf \/ ch = B.cr

IsAsciiWhitespace(ch) == ch \in {0, 9, 10, 12, 13, 32}

isDelimiter(ch) ==
    \/ ch \in {40, 41, 60, 62, 91, 93, 123, 125, 47, 37}
    \/ IsAsciiWhitespace(ch)

isDigit(ch) == ch >= B.d0 /\ ch <= B.d9

\* IsHexChar: the success flag, and the value of a hex character.
IsHexOk(c) ==
    \/ (B.d0 <= c /\ c <= B.d9)
    \/ (B.la <= c /\ c <= B.lf_)
    \/ (B.uA <= c /\ c <= B.uF)

IsHexVal(c) ==
    IF B.d0 <= c /\ c <= B.d9 THEN c - B.d0
    ELSE IF B.la <= c /\ c <= B.lf_ THEN c - B.la + 10
    ELSE IF B.uA <= c /\ c <= B.uF THEN c - B.uA + 10
    ELSE c

----------------------------------------------------------------------------
\* Conversions of strconv used by the scanner, on the strings it hands them

\* Value of the decimal digits of s (s holds only '0'..'9').
RECURSIVE DecValue(_)
DecValue(s) ==
    IF Len(s) = 0 THEN 0
    ELSE 10 * DecValue(SubSeq(s, 1, Len(s) - 1)) + (s[Len(s)] - B.d0)

\* s without its leading sign, if any.
Unsigned(s) ==
    IF Len(s) > 0 /\ s[1] \in {B.plus, B.minus} THEN SubSeq(s, 2, Len(s)) ELSE s

\* strconv.Atoi on an optional sign followed by decimal digits; 0 on a
\* syntax error (no digit), the error being dropped by the caller.
Atoi(s) ==
    IF Len(Unsigned(s)) = 0 THEN 0
    ELSE IF Len(s) > 0 /\ s[1] = B.minus THEN 0 - DecValue(Unsigned(s))
    ELSE DecValue(Unsigned(s))

\* Value of the digits of s in base b, or -1 when a digit is not below b.
RECURSIVE BaseValue(_, _)
BaseValue(s, b) ==
    IF Len(s) = 0 THEN 0
    ELSE LET hi == BaseValue(SubSeq(s, 1, Len(s) - 1), b)
             dg == s[Len(s)] - B.d0
         IN  IF hi < 0 \/ dg >= b THEN -1 ELSE hi * b + dg

\* strconv.ParseInt(s, base, 0) on a non-empty string of decimal digits;
\* 0 on any error (invalid base, digit out of range), the error being
\* dropped by the caller.  Base 0 reads a leading '0' as the octal prefix.
ParseInt(s, base) ==
    LET b  == IF base = 0 THEN (IF s[1] = B.d0 THEN 8 ELSE 10) ELSE base
        t  == IF base = 0 /\ s[1] = B.d0 THEN SubSeq(s, 2, Len(s)) ELSE s
        v  == BaseValue(t, b)
    IN  IF base # 0 /\ (base < 2 \/ base > 36) THEN 0
        ELSE IF v < 0 THEN 0 ELSE v

\* strconv.Itoa of a natural number.
RECURSIVE Itoa(_)
Itoa(n) ==
    IF n < 10 THEN <<B.d0 + n>>
    ELSE Append(Itoa(n \div 10), B.d0 + (n % 10))

\* Token.Int on the Value of an Integer token (an optional sign and decimal
\* digits): ParseFloat, then the conversion to int.
TokenInt(t) ==
    IF Len(t.Value) > 0 /\ t.Value[1] = B.minus
    THEN 0 - DecValue(Unsigned(t.Value))
    ELSE DecValue(Unsigned(t.Value))

----------------------------------------------------------------------------
\* ByteSource

\* read(): the byte at pos and pos+1, or (0, false) at the end of data.
Read(d, p) ==
    IF p >= Len(d) THEN [ch |-> 0, ok |-> FALSE, pos |-> p]
    ELSE [ch |-> d[p + 1], ok |-> TRUE, pos |-> p + 1]

----------------------------------------------------------------------------
\* Results of a scan

\* return tok, nil
Ret(tok, p) == [tok |-> tok, err |-> Nil, pos |-> p, fault |-> FALSE]

\* Mutant of EOFRet: the Kind is left out, `return Token{}, nil`.
EOFRetNoKind(p) == Ret(ZeroToken, p)

\* return Token{Kind: EOF}, nil
EOFRet(p) == Ret(KindToken("EOF"), p)

\* Mutant of ErrRet: the error comes with an EOF token,
\* `return Token{Kind: EOF}, errors.New(msg)`.
ErrRetEOF(msg, p) == [tok |-> KindToken("EOF"), err |-> msg, pos |-> p, fault |-> FALSE]

\* return Token{}, errors.New(msg)
ErrRet(msg, p) == [tok |-> ZeroToken, err |-> msg, pos |-> p, fault |-> FALSE]

\* A run-time panic (slice bounds out of range) inside the scan.
FaultRet(p) == [tok |-> ZeroToken, err |-> Nil, pos |-> p, fault |-> TRUE]

----------------------------------------------------------------------------
\* NumberScanner
\* (Each step of a scanner takes the result r = [ch, ok, pos] of the read
\* before it, so that one operator is one stretch of straight-line code.)

\* for isDigit(c) { numberSb = append(numberSb, c); c, ok = pr.read() }
\* r: the last read; seen: whether the loop body ran (hasDigit).
RECURSIVE Digits(_, _, _, _)
Digits(d, r, sb, seen) ==
    IF isDigit(r.ch) THEN Digits(d, Read(d, r.pos), Append(sb, r.ch), TRUE)
    ELSE [c |-> r.ch, ok |-> r.ok, pos |-> r.pos, sb |-> sb, seen |-> seen]

\* readNumber's failure: `pr.pos = markedPos; return Token{}, false`
NotNumber(markedPos) == [ok |-> FALSE, tok |-> ZeroToken, pos |-> markedPos]

\* `if ok { pr.pos-- }`, then the radix conversion or the Float; h is the
\* result of the second digit loop.
NumberEnd(h, radix) ==
    IF radix # <<>>
    THEN [ok |-> TRUE,
          tok |-> ValToken("Integer", Itoa(ParseInt(h.sb, Atoi(radix)))),
          pos |-> IF h.ok THEN h.pos - 1 ELSE h.pos]
    ELSE [ok |-> TRUE, tok |-> ValToken("Float", h.sb),
          pos |-> IF h.ok THEN h.pos - 1 ELSE h.pos]

\* From "check required digit": r is the last read, sb is numberSb, radix
\* the bytes that were before '#'.
NumberTail(d, markedPos, r, sb, numberRequired, radix) ==
    IF numberRequired /\ ~isDigit(r.ch) THEN NotNumber(markedPos)
    ELSE NumberEnd(Digits(d, r, sb, FALSE), radix)

\* After 'E' or 'e' (n: the read after it): the optional minus.
NumberExp(d, markedPos, g, n) ==
    IF n.ch = B.minus
    THEN NumberTail(d, markedPos, Read(d, n.pos),
                    Append(Append(g.sb, g.c), n.ch), TRUE, <<>>)
    ELSE NumberTail(d, markedPos, n, Append(g.sb, g.c), TRUE, <<>>)

\* After the first digit loop, whose result is g: '.', '#', failure,
\* exponent or integer.
NumberBody(d, markedPos, g) ==
    IF g.c = B.dot
    THEN NumberTail(d, markedPos, Read(d, g.pos), Append(g.sb, g.c), FALSE, <<>>)
    ELSE IF g.c = B.hash
    THEN NumberTail(d, markedPos, Read(d, g.pos), <<>>, TRUE, g.sb)
    ELSE IF Len(g.sb) = 0 \/ ~g.seen THEN NotNumber(markedPos)
    ELSE IF g.c = B.uE \/ g.c = B.le
    THEN NumberExp(d, markedPos, g, Read(d, g.pos))
    ELSE [ok |-> TRUE, tok |-> ValToken("Integer", g.sb),
          pos |-> IF g.ok THEN g.pos - 1 ELSE g.pos]

\* After a sign r0: `c, _ = pr.read()` (r1) leaves ok as the first read set it.
NumberSigned(d, markedPos, r0, r1) ==
    NumberBody(d, markedPos,
               Digits(d, [ch |-> r1.ch, ok |-> r0.ok, pos |-> r1.pos], <<r0.ch>>, FALSE))

\* After the first read r0: the optional sign.
NumberStart(d, markedPos, r0) ==
    IF r0.ch = B.plus \/ r0.ch = B.minus
    THEN NumberSigned(d, markedPos, r0, Read(d, r0.pos))
    ELSE NumberBody(d, markedPos, Digits(d, r0, <<>>, FALSE))

\* readNumber with pos = p: [ok, tok, pos]; ok is false if the bytes at p
\* are no number, and pos is then p again.
readNumber(d, p) == NumberStart(d, p, Read(d, p))

----------------------------------------------------------------------------
\* CharString

\* data[pos:maxL] after `pr.pos++` (p1) and the truncation of maxL: the slice
\* panics when pos > maxL (the space is past the end of data, or length is
\* negative); then `pr.pos += length`.
CharStringSlice(d, p1, maxL, length) ==
    IF p1 > maxL THEN FaultRet(p1)
    ELSE Ret(ValToken("CharString", SubSeq(d, p1 + 1, maxL)), p1 + length)

\* readCharString(length) with pos = p.
readCharString(d, p, length) ==
    CharStringSlice(d, p + 1,
                    IF p + 1 + length >= Len(d) THEN Len(d) ELSE p + 1 + length,
                    length)

----------------------------------------------------------------------------
\* NameScanner

RECURSIVE NameLoop(_, _, _)

\* After '#' (already in out) and the two reads h1, h2: hex.Decode of the
\* pair, then `outBuf = append(outBuf, h1, h2)`.
NameHex(d, h1, h2, out) ==
    IF IsHexOk(h1.ch) /\ IsHexOk(h2.ch)
    THEN NameLoop(d, h2.pos, out \o <<h1.ch, h2.ch>>)
    ELSE ErrRet("corrupted name object", h2.pos)

\* `h1, _ := pr.read(); h2, _ := pr.read()`
NameHashRead(d, h1, out) == NameHex(d, h1, Read(d, h1.pos), out)

\* One turn of the loop of case '/', r being its read.
NameStep(d, r, out) ==
    IF ~r.ok \/ isDelimiter(r.ch)
    THEN Ret(ValToken("Name", out), IF r.ok THEN r.pos - 1 ELSE r.pos)
    ELSE IF r.ch = B.hash THEN NameHashRead(d, Read(d, r.pos), Append(out, r.ch))
    ELSE NameLoop(d, r.pos, Append(out, r.ch))

\* The loop of case '/' with pos = p: out is outBuf.
NameLoop(d, p, out) == NameStep(d, Read(d, p), out)

----------------------------------------------------------------------------
\* HexStringScanner

\* for ok && IsAsciiWhitespace(v) { v, ok = pr.read() }, r being the last read.
RECURSIVE SkipWs(_, _)
SkipWs(d, r) ==
    IF r.ok /\ IsAsciiWhitespace(r.ch) THEN SkipWs(d, Read(d, r.pos)) ELSE r

RECURSIVE HexLoop(_, _, _)

\* The second nibble b (whitespace skipped) after the first nibble a.
HexSecond(d, a, b, out) ==
    IF b.ch = B.gt
    THEN Ret(ValToken("StringHex", Append(out, (IsHexVal(a.ch) * 16) % 256)), b.pos)
    ELSE IF ~IsHexOk(b.ch) THEN ErrRet("invalid hex char", b.pos)
    ELSE HexLoop(d, Read(d, b.pos),
                 Append(out, (IsHexVal(a.ch) * 16 + IsHexVal(b.ch)) % 256))

\* The first nibble a (whitespace skipped).
HexFirst(d, a, out) ==
    IF a.ch = B.gt THEN Ret(ValToken("StringHex", out), a.pos)
    ELSE IF ~IsHexOk(a.ch) THEN ErrRet("invalid hex char", a.pos)
    ELSE HexSecond(d, a, SkipWs(d, Read(d, a.pos)), out)

\* The loop of case '<', r being the read of v1.
HexLoop(d, r, out) == HexFirst(d, SkipWs(d, r), out)

----------------------------------------------------------------------------
\* StringScanner

isOctal(ch) == ch >= B.d0 /\ ch <= B.d7

\* What the switch after a backslash leaves: the byte ch, the ok of the last
\* read, pos, and lineBreak.
Esc(ch, ok, p, lb) == [ch |-> ch, ok |-> ok, pos |-> p, lineBreak |-> lb]

\* Third octal digit r3 after the value o2 of two (byte arithmetic).
EscOctal3(o2, r3) ==
    IF ~isOctal(r3.ch) THEN Esc(o2, r3.ok, r3.pos - 1, FALSE)
    ELSE Esc((o2 * 8 + r3.ch - B.d0) % 256, r3.ok, r3.pos, FALSE)

\* Second octal digit r2 after the value o1 of the first.
EscOctal2(d, o1, r2) ==
    IF ~isOctal(r2.ch) THEN Esc(o1, r2.ok, r2.pos - 1, FALSE)
    ELSE EscOctal3((o1 * 8 + r2.ch - B.d0) % 256, Read(d, r2.pos))

\* case '\r' of the switch: r2 is the read after the CR.
EscCR(r2) == Esc(r2.ch, r2.ok, IF r2.ch # B.lf THEN r2.pos - 1 ELSE r2.pos, TRUE)

\* The switch on the byte r read after a backslash.
EscSwitch(d, r) ==
    IF r.ch = B.ln THEN Esc(B.lf, r.ok, r.pos, FALSE)
    ELSE IF r.ch = B.lr THEN Esc(B.cr, r.ok, r.pos, FALSE)
    ELSE IF r.ch = B.lt_ THEN Esc(B.tab, r.ok, r.pos, FALSE)
    ELSE IF r.ch = B.lb THEN Esc(B.bs, r.ok, r.pos, FALSE)
    ELSE IF r.ch = B.lf_ THEN Esc(B.ff, r.ok, r.pos, FALSE)
    ELSE IF r.ch \in {B.lpar, B.rpar, B.bsl} THEN Esc(r.ch, r.ok, r.pos, FALSE)
    ELSE IF r.ch = B.cr THEN EscCR(Read(d, r.pos))
    ELSE IF r.ch = B.lf THEN Esc(r.ch, r.ok, r.pos, TRUE)
    ELSE IF ~isOctal(r.ch) THEN Esc(r.ch, r.ok, r.pos, FALSE)
    ELSE EscOctal2(d, r.ch - B.d0, Read(d, r.pos))

\* The escape after a backslash, pos = p.
Escape(d, p) == EscSwitch(d, Read(d, p))

\* The exit of the string loop with ok false.
StringEOF(p) == ErrRet("error reading string: unexpected EOF", p)

RECURSIVE StringLoop(_, _, _, _)

\* After an escape e: `if lineBreak { continue }`, `if !ok { break }`.
StringEscaped(d, e, nesting, out) ==
    IF e.lineBreak THEN StringLoop(d, e.pos, nesting, out)
    ELSE IF ~e.ok THEN StringEOF(e.pos)
    ELSE StringLoop(d, e.pos, nesting, Append(out, e.ch))

\* After a bare CR, r2 being the read after it: CR and CRLF become LF.
StringCR(d, r2, nesting, out) ==
    IF ~r2.ok THEN StringEOF(r2.pos)
    ELSE StringLoop(d, IF r2.ch # B.lf THEN r2.pos - 1 ELSE r2.pos,
                    nesting, Append(out, B.lf))

\* One turn of the loop of case '(', r being its read.
StringStep(d, r, nesting, out) ==
    IF ~r.ok THEN StringEOF(r.pos)
    ELSE IF r.ch = B.lpar THEN StringLoop(d, r.pos, nesting + 1, Append(out, r.ch))
    ELSE IF r.ch = B.rpar
    THEN IF nesting - 1 = -1 THEN Ret(ValToken("String", out), r.pos)
         ELSE StringLoop(d, r.pos, nesting - 1, Append(out, r.ch))
    ELSE IF r.ch = B.bsl THEN StringEscaped(d, Escape(d, r.pos), nesting, out)
    ELSE IF r.ch = B.cr THEN StringCR(d, Read(d, r.pos), nesting, out)
    ELSE StringLoop(d, r.pos, nesting, Append(out, r.ch))

\* The loop of case '(' with pos = p.
StringLoop(d, p, nesting, out) == StringStep(d, Read(d, p), nesting, out)

----------------------------------------------------------------------------
\* CoreTokenizer

\* for ok && ch != '\r' && ch != '\n' { ch, ok = pr.read() }: the pos after
\* it, r being the last read.
RECURSIVE CommentLoop(_, _)
CommentLoop(d, r) ==
    IF r.ok /\ r.ch # B.cr /\ r.ch # B.lf THEN CommentLoop(d, Read(d, r.pos))
    ELSE r.pos

\* for !isDelimiter(ch) { outBuf = append(outBuf, ch); ch, ok = pr.read() }
RECURSIVE WordLoop(_, _, _)
WordLoop(d, r, out) ==
    IF ~isDelimiter(r.ch) THEN WordLoop(d, Read(d, r.pos), Append(out, r.ch))
    ELSE [ok |-> r.ok, pos |-> r.pos, out |-> out]

\* The word out ending at e: the CharString trigger, or Other.
WordToken(d, out, e, previous) ==
    IF out = WRD \/ out = WMinusBar
    THEN IF previous.Kind = "Integer"
         THEN readCharString(d, e, TokenInt(previous))
         ELSE ErrRet("expected INTEGER before -| or RD", e)
    ELSE Ret(ValToken("Other", out), e)

\* `if ok { pr.pos-- }` after the word loop, whose result is w.
WordEnd(d, w, previous) ==
    WordToken(d, w.out, IF w.ok THEN w.pos - 1 ELSE w.pos, previous)

\* The word, r1 being the read of its first byte.
WordStart(d, r1, previous) ==
    WordEnd(d, WordLoop(d, Read(d, r1.pos), <<r1.ch>>), previous)

\* After readNumber, whose result is n.
NumberOrWord(d, n, previous) ==
    IF n.ok THEN Ret(n.tok, n.pos) ELSE WordStart(d, Read(d, n.pos), previous)

\* The default case of nextToken, p being pos after `pr.pos--`.
DefaultCase(d, p, previous) == NumberOrWord(d, readNumber(d, p), previous)

\* case '>': n is the read after it.
GtCase(n) ==
    IF n.ch # B.gt THEN ErrRet("'>' not expected", n.pos)
    ELSE Ret(KindToken("EndDic"), n.pos)

\* case '<': n is the read after it.
LtCase(d, n) ==
    IF n.ch = B.lt THEN Ret(KindToken("StartDic"), n.pos) ELSE HexLoop(d, n, <<>>)

RECURSIVE nextToken(_, _, _)

\* The switch of nextToken on the first byte r that is no whitespace.
Dispatch(d, r, previous) ==
    IF ~r.ok THEN EOFRet(r.pos)
    ELSE IF r.ch = B.lbrk THEN Ret(KindToken("StartArray"), r.pos)
    ELSE IF r.ch = B.rbrk THEN Ret(KindToken("EndArray"), r.pos)
    ELSE IF r.ch = B.lbrc THEN Ret(KindToken("StartProc"), r.pos)
    ELSE IF r.ch = B.rbrc THEN Ret(KindToken("EndProc"), r.pos)
    ELSE IF r.ch = B.slash THEN NameLoop(d, r.pos, <<>>)
    ELSE IF r.ch = B.gt THEN GtCase(Read(d, r.pos))
    ELSE IF r.ch = B.lt THEN LtCase(d, Read(d, r.pos))
    ELSE IF r.ch = B.pct
    THEN nextToken(d, CommentLoop(d, Read(d, r.pos)), previous)
    ELSE IF r.ch = B.lpar THEN StringLoop(d, r.pos, 0, <<>>)
    ELSE DefaultCase(d, r.pos - 1, previous)

\* nextToken(previous) with pos = p: [tok, err, pos, fault].
nextToken(d, p, previous) == Dispatch(d, SkipWs(d, Read(d, p)), previous)

----------------------------------------------------------------------------
\* Bounds and inputs

\* Longest input, and largest argument of SkipBytes.
MaxLen == 4
MaxSkip == 2

\* All byte sequences over alphabet A of length at most n.
SeqsUpTo(A, n) == UNION {[1..k -> A] : k \in 0..n}

\* Alphabets of the inputs: operator words and CharStrings; arrays and
\* procedures around binary operators; names; dictionaries and hex strings;
\* radix numbers; reals; literal strings; escapes and comments.
AlphaWords == {B.sp, B.d1, B.uR, B.uD, B.uI}
AlphaArrays == {B.lbrk, B.rbrc, B.uI, B.uD, B.d0}
AlphaNames == {B.slash, B.hash, B.uA, B.lx, B.sp}
AlphaHex == {B.lt, B.gt, B.uA, B.lx, B.sp}
AlphaRadix == {B.d1, B.d2, B.hash, B.uA, B.minus}
AlphaReals == {B.d1, B.dot, B.le, B.minus, B.bar}
AlphaStrings == {B.lpar, B.rpar, B.bsl, B.cr, B.d7}
AlphaEscapes == {B.lpar, B.rpar, B.bsl, B.lf, B.pct}

Inputs ==
    SeqsUpTo(AlphaWords, MaxLen) \cup SeqsUpTo(AlphaArrays, MaxLen)
    \cup SeqsUpTo(AlphaNames, MaxLen) \cup SeqsUpTo(AlphaHex, MaxLen)
    \cup SeqsUpTo(AlphaRadix, MaxLen) \cup SeqsUpTo(AlphaReals, MaxLen)
    \cup SeqsUpTo(AlphaStrings, MaxLen) \cup SeqsUpTo(AlphaEscapes, MaxLen)

----------------------------------------------------------------------------
\* The Tokenizer

VARIABLES
    data,        \* the input bytes
    aToken,      \* +1 token
    aError,      \* +1 error
    aaToken,     \* +2 token
    aaError,     \* +2 error
    pos,         \* main position (end of the aaToken)
    currentPos,  \* end of the current token
    nextPos,     \* end of the +1 token
    fault,       \* the last operation panicked; the program has stopped
    ret,         \* the last public operation and what it returned
    forward      \* only NextToken was called since NewTokenizer

vars == <<data, aToken, aError, aaToken, aaError, pos, currentPos, nextPos,
          fault, ret, forward>>

\* The fields of the Tokenizer struct as one record.
Tk == [aToken |-> aToken, aError |-> aError, aaToken |-> aaToken,
       aaError |-> aaError, pos |-> pos, currentPos |-> currentPos,
       nextPos |-> nextPos, fault |-> fault]

\* Tokenizer{data: data}: every other field has its zero value.
ZeroTk == [aToken |-> ZeroToken, aError |-> Nil, aaToken |-> ZeroToken,
           aaError |-> Nil, pos |-> 0, currentPos |-> 0, nextPos |-> 0,
           fault |-> FALSE]

\* A panic in a scan, whose result is r: the fields assigned before it stay.
Panicked(s, r) == [s EXCEPT !.pos = r.pos, !.fault = TRUE]

\* `tk.aaToken, tk.aaError = tk.nextToken(tk.aToken)`, r2 being the scan.
SetSecond(s, r2) ==
    IF r2.fault THEN Panicked(s, r2)
    ELSE [s EXCEPT !.aaToken = r2.tok, !.aaError = r2.err, !.pos = r2.pos]

\* `tk.aToken, tk.aError = tk.nextToken(Token{}); tk.nextPos = tk.pos`, r1
\* being the scan, then the second scan.
SetFirst(d, s, r1) ==
    IF r1.fault THEN Panicked(s, r1)
    ELSE SetSecond([s EXCEPT !.aToken = r1.tok, !.aError = r1.err,
                             !.pos = r1.pos, !.nextPos = r1.pos],
                   nextToken(d, r1.pos, r1.tok))

\* Mutant of SetPositionOp: `tk.pos = pos` is left out, the scans start
\* where the cursor was.
SetPositionNoSeek(d, s, p) ==
    SetFirst(d, [s EXCEPT !.currentPos = p], nextToken(d, s.pos, ZeroToken))

\* SetPosition(p) on the tokenizer s.
SetPositionOp(d, s, p) ==
    SetFirst(d, [s EXCEPT !.currentPos = p, !.pos = p], nextToken(d, p, ZeroToken))

\* Mutant of Promote: `pr.currentPos = pr.nextPos` is left out.
PromoteStale(s) ==
    [s EXCEPT !.aToken = s.aaToken, !.aError = s.aaError, !.nextPos = s.pos]

\* The first four assignments of NextToken: n+2 to n+1, n+1 to n.
Promote(s) ==
    [s EXCEPT !.aToken = s.aaToken, !.aError = s.aaError,
              !.currentPos = s.nextPos, !.nextPos = s.pos]

\* The else branch of NextToken, r being the scan of the n+3 token; a panic
\* in it leaves the promoted slots and returns nothing.
NextScanned(s, r) ==
    IF r.fault
    THEN [st |-> Panicked(Promote(s), r), tok |-> ZeroToken, err |-> Nil]
    ELSE [st |-> [Promote(s) EXCEPT !.aaToken = r.tok, !.aaError = r.err,
                                    !.pos = r.pos],
          tok |-> s.aToken, err |-> s.aError]

\* NextToken() on the tokenizer s: the new tokenizer st and the returned
\* (tok, err).
NextTokenOp(d, s) ==
    IF startsBinary(s.aaToken)
    THEN [st |-> [Promote(s) EXCEPT !.aaToken = KindToken("EOF"), !.aaError = Nil],
          tok |-> s.aToken, err |-> s.aError]
    ELSE NextScanned(s, nextToken(d, s.pos, s.aaToken))

\* `out := pr.data[pr.currentPos:target]; pr.SetPosition(target)`: the slice
\* panics when currentPos > target.
SkipTo(d, s, target) ==
    IF s.currentPos > target
    THEN [st |-> [s EXCEPT !.fault = TRUE], out |-> <<>>]
    ELSE [st |-> SetPositionOp(d, s, target),
          out |-> SubSeq(d, s.currentPos + 1, target)]

\* SkipBytes(n) on the tokenizer s: the new tokenizer and the returned bytes.
SkipBytesOp(d, s, n) ==
    SkipTo(d, s, IF s.currentPos + n > Len(d) THEN Len(d) ELSE s.currentPos + n)

\* The tokenizer s becomes the state of the model.
Becomes(s) ==
    /\ aToken' = s.aToken /\ aError' = s.aError
    /\ aaToken' = s.aaToken /\ aaError' = s.aaError
    /\ pos' = s.pos /\ currentPos' = s.currentPos /\ nextPos' = s.nextPos
    /\ fault' = s.fault

\* The tokenizer s is the state of the model.
Is(s) ==
    /\ aToken = s.aToken /\ aError = s.aError
    /\ aaToken = s.aaToken /\ aaError = s.aaError
    /\ pos = s.pos /\ currentPos = s.currentPos /\ nextPos = s.nextPos
    /\ fault = s.fault

\* What a public operation op returned.
Returned(op, tok, err, out) == [op |-> op, tok |-> tok, err |-> err, out |-> out]

\* NewTokenizer(data), for every input of the bounds.
Init ==
    /\ data \in Inputs
    /\ Is(SetPositionOp(data, ZeroTk, 0))
    /\ ret = Returned("NewTokenizer", ZeroToken, Nil, <<>>)
    /\ forward = TRUE

\* The effect of tk.NextToken(), r being NextTokenOp's result.
NextTokenDone(r) ==
    /\ Becomes(r.st)
    /\ ret' = Returned("NextToken", r.tok, r.err, <<>>)

\* tk.NextToken()
NextToken ==
    /\ ~fault
    /\ NextTokenDone(NextTokenOp(data, Tk))
    /\ UNCHANGED <<data, forward>>

\* tk.SetPosition(p), 0 <= p <= len(data)
SetPosition ==
    /\ ~fault
    /\ \E p \in 0..Len(data) : Becomes(SetPositionOp(data, Tk, p))
    /\ ret' = Returned("SetPosition", ZeroToken, Nil, <<>>)
    /\ forward' = FALSE
    /\ UNCHANGED data

\* The effect of tk.SkipBytes(n), r being SkipBytesOp's result.
SkipBytesDone(r) ==
    /\ Becomes(r.st)
    /\ ret' = Returned("SkipBytes", ZeroToken, Nil, r.out)

\* tk.SkipBytes(n), n >= 0
SkipBytes ==
    /\ ~fault
    /\ \E n \in 0..MaxSkip : SkipBytesDone(SkipBytesOp(data, Tk, n))
    /\ forward' = FALSE
    /\ UNCHANGED data

Next == NextToken \/ SetPosition \/ SkipBytes

Spec == Init /\ [][Next]_vars

----------------------------------------------------------------------------
\* Helpers of the properties

\* The bytes of d at the Go offsets lo (included) to hi (excluded).
Bytes(d, lo, hi) == SubSeq(d, lo + 1, hi)

\* The Value v is, byte for byte, what d holds just before offset c.
EndsWith(d, v, c) ==
    c <= Len(d) /\ c >= Len(v) /\ Bytes(d, c - Len(v), c) = v

\* There is no byte at offset c, or it satisfies P.
EndOr(d, c, P(_)) == c >= Len(d) \/ P(d[c + 1])

\* The byte at offset c - 1 exists and is b.
LastIs(d, c, b) == c >= 1 /\ c <= Len(d) /\ d[c] = b

\* Offset c is just past a radix numeral: digits, '#', digits.
RadixEndsAt(d, c) ==
    \E k \in 1..Len(d) :
        /\ d[k] = B.hash /\ k < c /\ c <= Len(d)
        /\ \A i \in (k + 1)..c : isDigit(d[i])

\* Offset c of d is just past a lexeme of the token t, and the byte at c, if
\* any, is a byte that ends such a lexeme without being part of it.
LexemeEndsAt(d, t, c) ==
    CASE t.Kind = "StartArray" -> LastIs(d, c, B.lbrk)
      [] t.Kind = "EndArray" -> LastIs(d, c, B.rbrk)
      [] t.Kind = "StartProc" -> LastIs(d, c, B.lbrc)
      [] t.Kind = "EndProc" -> LastIs(d, c, B.rbrc)
      [] t.Kind = "StartDic" -> EndsWith(d, <<B.lt, B.lt>>, c)
      [] t.Kind = "EndDic" -> EndsWith(d, <<B.gt, B.gt>>, c)
      [] t.Kind = "String" -> LastIs(d, c, B.rpar)
      [] t.Kind = "StringHex" -> LastIs(d, c, B.gt)
      [] t.Kind = "Name" ->
            /\ EndsWith(d, <<B.slash>> \o t.Value, c)
            /\ EndOr(d, c, isDelimiter)
      [] t.Kind = "Other" ->
            /\ EndsWith(d, t.Value, c) /\ Len(t.Value) >= 1
            /\ EndOr(d, c, isDelimiter)
      [] t.Kind = "Integer" ->
            /\ c >= 1 /\ c <= Len(d) /\ isDigit(d[c])
            /\ EndOr(d, c, LAMBDA b : ~isDigit(b))
            /\ (EndsWith(d, t.Value, c) \/ RadixEndsAt(d, c))
      [] t.Kind = "Float" ->
            /\ EndsWith(d, t.Value, c) /\ Len(t.Value) >= 1
            /\ EndOr(d, c, LAMBDA b : ~isDigit(b))
      [] t.Kind = "CharString" -> EndsWith(d, t.Value, c)
      [] OTHER -> TRUE

\* The offset just past the word RD or -| that follows offset p (whitespace
\* skipped) and ends at a delimiter or at the end of d; -1 if there is none.
TriggerEnd(d, p) ==
    LET s == SkipWs(d, Read(d, p)).pos - 1
    IN  IF /\ s >= 0 /\ s + 2 <= Len(d)
           /\ (Bytes(d, s, s + 2) = WRD \/ Bytes(d, s, s + 2) = WMinusBar)
           /\ EndOr(d, s + 2, isDelimiter)
           /\ ~IsAsciiWhitespace(d[s + 1])
        THEN s + 2 ELSE -1

\* The value of a digit of a radix numeral: 0-9, then the letters.
DigitValue(b) ==
    IF isDigit(b) THEN b - B.d0
    ELSE IF b >= B.la /\ b <= B.lz THEN b - B.la + 10
    ELSE IF b >= B.uA /\ b <= B.uZ THEN b - B.uA + 10
    ELSE 99

\* d is base#digits from its offset 0 to k-1: a decimal base in 2..36, '#' at
\* index k, then digits of that base to the end of d.
IsRadixAt(d, k) ==
    /\ k >= 2 /\ k < Len(d) /\ d[k] = B.hash
    /\ \A i \in 1..(k - 1) : isDigit(d[i])
    /\ DecValue(SubSeq(d, 1, k - 1)) \in 2..36
    /\ \A i \in (k + 1)..Len(d) : DigitValue(d[i]) < DecValue(SubSeq(d, 1, k - 1))

\* The integer that the digits s denote in base b.
RECURSIVE Denotes(_, _)
Denotes(s, b) ==
    IF Len(s) = 0 THEN 0
    ELSE Denotes(SubSeq(s, 1, Len(s) - 1), b) * b + DigitValue(s[Len(s)])

\* What NextToken returns in this state, and what it returns once
\* SetPosition(CurrentPosition) was called in this state.
ForwardNext == NextTokenOp(data, Tk)
SeekFirst(t) ==
    IF t.fault THEN [st |-> t, tok |-> ZeroToken, err |-> Nil] ELSE NextTokenOp(data, t)
SeekNext == SeekFirst(SetPositionOp(data, Tk, currentPos))

\* The two calls return the same token and error.
SameReturn(a, b) == ~b.st.fault /\ a.tok = b.tok /\ a.err = b.err

----------------------------------------------------------------------------
\* C1: after every public operation, currentPos <= nextPos <= pos <=
\* len(data), and no operation faults.
C1_PositionsOrdered ==
    /\ ~fault
    /\ currentPos <= nextPos /\ nextPos <= pos /\ pos <= Len(data)

\* C2: whenever the +1 slot holds Other "stream" or "ID", the +2 slot is
\* (EOF, nil) and the scan cursor is still at the end of that operator.
C2_BinaryStopsLookahead ==
    (~fault /\ aError = Nil /\ startsBinary(aToken)) =>
        (aaToken = KindToken("EOF") /\ aaError = Nil /\ pos = nextPos)

C3_Excluded ==
    \/ aToken.Kind = "CharString"
    \/ startsBinary(aToken)
    \/ (ret.op = "NextToken" /\ startsBinary(ret.tok) /\ aToken.Kind = "EOF")

C4_PositionAfterLexeme ==
    (ret.op = "NextToken" /\ ~fault /\ ret.err = Nil) =>
        /\ LexemeEndsAt(data, ret.tok, currentPos)
        /\ ~startsBinary(ret.tok) =>
              /\ ~nextToken(data, currentPos, ret.tok).fault
              /\ aToken = nextToken(data, currentPos, ret.tok).tok
              /\ aError = nextToken(data, currentPos, ret.tok).err
              /\ nextPos = nextToken(data, currentPos, ret.tok).pos

\* C5: a NextToken that returns a token other than EOF without error leaves
\* CurrentPosition strictly greater than it was (in particular on a
\* well-formed input, where no scan returns an error).
C5_Progress ==
    [][(ret'.op = "NextToken" /\ ~fault' /\ ret'.err = Nil /\ ret'.tok.Kind # "EOF")
         => currentPos' > currentPos]_vars

\* NextToken returned a token after a SetPosition in the middle of the input.
C5_Witness ==
    /\ ret.op = "NextToken" /\ ~fault /\ ret.err = Nil /\ ~forward
    /\ ret.tok.Kind \in {"Other", "CharString", "Float", "String"}
    /\ currentPos > 1

\* C6 as stated: a token returned or cached with a non-nil error has Kind
\* EOF and an empty Value.
C6_ErrorTokenIsEOF ==
    /\ aError # Nil => (aToken.Kind = "EOF" /\ aToken.Value = <<>>)
    /\ aaError # Nil => (aaToken.Kind = "EOF" /\ aaToken.Value = <<>>)
    /\ ret.err # Nil => (ret.tok.Kind = "EOF" /\ ret.tok.Value = <<>>)

\* C6 as amended: a token returned or cached with a non-nil error is the zero
\* Token: its Value is empty and its Kind is the zero Kind, which is not EOF.
C6_ErrorTokenIsZero ==
    /\ KindZero # "EOF"
    /\ aError # Nil => (aToken.Kind = KindZero /\ aToken.Value = <<>>)
    /\ aaError # Nil => (aaToken.Kind = KindZero /\ aaToken.Value = <<>>)
    /\ ret.err # Nil => (ret.tok.Kind = KindZero /\ ret.tok.Value = <<>>)

\* NextToken returned an error, and another one is cached.
C6_Witness ==
    /\ ~fault /\ ret.op = "NextToken" /\ ret.err # Nil /\ aError # Nil

\* C7: when the +1 token is an Integer of value N and the word RD or -|
\* follows it, the +2 token is a CharString of exactly the N bytes after the
\* single byte after the word, and the scan cursor is just past them.
C7_CharStringExact ==
    (aError = Nil /\ aToken.Kind = "Integer" /\ TriggerEnd(data, nextPos) >= 0) =>
        /\ ~fault
        /\ aaError = Nil /\ aaToken.Kind = "CharString"
        /\ TokenInt(aToken) >= 0
        /\ pos = TriggerEnd(data, nextPos) + 1 + TokenInt(aToken)
        /\ pos <= Len(data)
        /\ aaToken.Value = Bytes(data, TriggerEnd(data, nextPos) + 1, pos)

\* C8 as stated: once the scan cursor is at the end of the data and
\* NextToken has returned EOF, the next NextToken returns (EOF, nil) and
\* leaves CurrentPosition unchanged.
C8_EOFForever ==
    [][(/\ ~fault /\ pos = Len(data)
        /\ ret.op = "NextToken" /\ ret.tok.Kind = "EOF"
        /\ ret'.op = "NextToken")
         => (/\ ~fault' /\ ret'.tok = KindToken("EOF") /\ ret'.err = Nil
             /\ currentPos' = currentPos)]_vars

\* C8 as amended: the same once CurrentPosition too is at the end of the
\* data (the EOF returned was not the one forced after stream/ID with bytes
\* still to consume).
C8_EOFForeverAmended ==
    [][(/\ ~fault /\ pos = Len(data) /\ currentPos = Len(data)
        /\ ret.op = "NextToken" /\ ret.tok.Kind = "EOF"
        /\ ret'.op = "NextToken")
         => (/\ ~fault' /\ ret'.tok = KindToken("EOF") /\ ret'.err = Nil
             /\ currentPos' = currentPos)]_vars

\* NextToken returned EOF at the end of an input that held tokens.
C8_Witness ==
    /\ ~fault /\ pos = Len(data) /\ currentPos = Len(data) /\ Len(data) > 1
    /\ ret.op = "NextToken" /\ ret.tok.Kind = "EOF" /\ ret.err = Nil
    /\ aToken.Kind = "EOF" /\ aaToken.Kind = "EOF"

\* C9: no scan faults or moves the cursor backward, and a scan that does not
\* yield EOF (an error included) moves it strictly forward; so NextToken
\* yields EOF after finitely many calls and Tokenize returns.
C9_ScansTerminate ==
    \A p \in 0..Len(data) : \A prev \in {ZeroToken, aToken, aaToken} :
        /\ ~nextToken(data, p, prev).fault
        /\ nextToken(data, p, prev).pos >= p
        /\ nextToken(data, p, prev).tok.Kind # "EOF" => nextToken(data, p, prev).pos > p

\* C10: an input that is base#digits, base a decimal numeral in 2..36 and
\* digits valid in that base (letters included), gives one Integer token
\* whose Value is the decimal of the integer the digits denote.
C10_RadixValue ==
    \A k \in 1..Len(data) :
        (ret.op = "NewTokenizer" /\ IsRadixAt(data, k)) =>
            /\ ~fault /\ aError = Nil
            /\ aToken = ValToken("Integer",
                   Itoa(Denotes(SubSeq(data, k + 1, Len(data)),
                                DecValue(SubSeq(data, 1, k - 1)))))
            /\ aaToken.Kind = "EOF"

====
